---- MODULE Spec2Model ----
(***************************************************************************)
(* switchbrew_bevy: the input aggregator (src/input.rs), the display       *)
(* manager (src/window.rs) and the configuration they read                 *)
(* (src/platform.rs), as the host scheduler runs them once per frame.      *)
(*                                                                         *)
(* Stick coordinates are f32 in the source.  Here they are fixed-point     *)
(* integers in units of 1/Scale (Scale = 20, so one unit is 0.05 and the   *)
(* 0.1 deadzone is 2 units); a quotient is rounded to the nearest unit, as *)
(* an f32 quotient is rounded to the nearest representable value.          *)
(***************************************************************************)
EXTENDS Integers, Sequences, FiniteSets, TLC

VARIABLES
    keyboard,        \* the host's ButtonInput<KeyCode>: pressed, just_pressed, just_released
    gamepads,        \* the host's Gamepad components, in query iteration order
    switch_input,    \* the SwitchInput resource
    stage,           \* where the host's frame is: "input" (events arrive) or "updated"
    moved,           \* the last value movement() returned, <<>> before any call
    config,          \* the SwitchConfig resource
    config_changed,  \* whether config changed since handle_display_mode_change last ran
    display,         \* the SwitchDisplay resource
    windows,         \* the resolutions of the host's Window components
    feature_switch,  \* whether the crate is built with the "switch" feature
    config_constructed  \* whether config has only ever been a constructor's value

vars == <<keyboard, gamepads, switch_input, stage, moved,
          config, config_changed, display, windows, feature_switch,
          config_constructed>>

input_vars == <<keyboard, gamepads, switch_input, stage, moved>>
display_vars == <<config, config_changed, display, windows, feature_switch,
                  config_constructed>>

----------------------------------------------------------------------------
(* Numbers *)

\* One unit of 1.0 in fixed point.
Scale == 20

\* The 0.1 of `abs() > 0.1` and `length() < 0.1`.
Deadzone == Scale \div 10

\* The most Gamepad components the host holds.
MaxGamepads == 2

\* The most Window components the host holds.
MaxWindows == 2

Abs(n) == IF n < 0 THEN -n ELSE n

Sign(n) == IF n < 0 THEN -1 ELSE IF n > 0 THEN 1 ELSE 0

\* Vec2::ZERO
ZERO == <<0, 0>>

\* Vec2::length_squared, in squared units
LengthSq(v) == v[1] * v[1] + v[2] * v[2]

\* c / sqrt(q) for |c| <= sqrt(q), in units of 1/Scale, rounded to the nearest
\* unit: the n with (n - 1/2) <= |c| * Scale / sqrt(q) < (n + 1/2).
DivLength(c, q) ==
    LET a == Abs(c)
        n == CHOOSE m \in 0..Scale :
                 /\ (m = 0 \/ (2 * m - 1) * (2 * m - 1) * q <= 4 * a * a * Scale * Scale)
                 /\ 4 * a * a * Scale * Scale < (2 * m + 1) * (2 * m + 1) * q
    IN  Sign(c) * n

\* Vec2::normalize of a non-zero vector: self / self.length()
Normalize(v) == <<DivLength(v[1], LengthSq(v)), DivLength(v[2], LengthSq(v))>>

----------------------------------------------------------------------------
(* Keys and buttons *)

\* enum SwitchButton
SwitchButton ==
    {"A", "B", "X", "Y", "L", "R", "ZL", "ZR", "LeftStick", "RightStick",
     "Plus", "Minus", "Home", "Capture",
     "DPadUp", "DPadDown", "DPadLeft", "DPadRight", "SL", "SR"}

\* Option::None
None == "None"

\* The keys from_keycode's match names before its `_ => None` arm.
TableKeys ==
    {"KeyZ", "KeyX", "KeyA", "KeyS", "KeyQ", "KeyW", "Digit1", "Digit2",
     "Enter", "Backspace", "ArrowUp", "ArrowDown", "ArrowLeft", "ArrowRight"}

\* from_keycode with a fall-through arm that yields a button instead of None.
from_keycode_fallthrough(key) ==
    CASE key = "KeyZ" -> "B"
      [] key = "KeyW" -> "R"
      [] OTHER -> "Home"

from_keycode(key) ==
    CASE key = "KeyZ" -> "B"
      [] key = "KeyX" -> "A"
      [] key = "KeyA" -> "Y"
      [] key = "KeyS" -> "X"
      [] key = "KeyQ" -> "L"
      [] key = "KeyW" -> "R"
      [] key = "Digit1" -> "ZL"
      [] key = "Digit2" -> "ZR"
      [] key = "Enter" -> "Plus"
      [] key = "Backspace" -> "Minus"
      [] key = "ArrowUp" -> "DPadUp"
      [] key = "ArrowDown" -> "DPadDown"
      [] key = "ArrowLeft" -> "DPadLeft"
      [] key = "ArrowRight" -> "DPadRight"
      [] OTHER -> None

----------------------------------------------------------------------------
(* The host's keyboard provider, ButtonInput<KeyCode> *)

\* ButtonInput::press: a key that was not pressed becomes pressed and just pressed.
ButtonInput_press(kb, key) ==
    IF key \in kb.pressed
    THEN kb
    ELSE [kb EXCEPT !.pressed = @ \cup {key}, !.just_pressed = @ \cup {key}]

\* ButtonInput::release: a key that was pressed becomes released and just released.
ButtonInput_release(kb, key) ==
    IF key \in kb.pressed
    THEN [kb EXCEPT !.pressed = @ \ {key}, !.just_released = @ \cup {key}]
    ELSE kb

\* ButtonInput::clear, which the host calls as each frame begins.
ButtonInput_clear(kb) == [kb EXCEPT !.just_pressed = {}, !.just_released = {}]

----------------------------------------------------------------------------
(* update_switch_input, step by step on a SwitchInput value *)

\* ClearFrameState without the second clear().
ClearFrameState_once(si) == [si EXCEPT !.just_pressed = {}]

\* just_pressed.clear(); just_released.clear()
ClearFrameState(si) == [si EXCEPT !.just_pressed = {}, !.just_released = {}]

\* for key in keyboard.get_just_pressed() { ... insert, insert }
PressKeys(si, kb) ==
    LET buttons == {from_keycode(key) : key \in kb.just_pressed} \ {None}
    IN  [si EXCEPT !.pressed = @ \cup buttons, !.just_pressed = @ \cup buttons]

\* for key in keyboard.get_just_released() { ... remove, insert }
ReleaseKeys(si, kb) ==
    LET buttons == {from_keycode(key) : key \in kb.just_released} \ {None}
    IN  [si EXCEPT !.pressed = @ \ buttons, !.just_released = @ \cup buttons]

\* The two keyboard loops the other way round.
KeyboardButtons_swapped(si, kb) == PressKeys(ReleaseKeys(si, kb), kb)

\* The keyboard loops in source order: the presses, then the releases.
KeyboardButtons(si, kb) == ReleaseKeys(PressKeys(si, kb), kb)

\* kb_movement: WASD or IJKL, each +-1.0 on an axis
KbMovement(kb) ==
    LET held(a, b) == a \in kb.pressed \/ b \in kb.pressed
        up    == IF held("KeyW", "KeyI") THEN Scale ELSE 0
        down  == IF held("KeyS", "KeyK") THEN Scale ELSE 0
        left  == IF held("KeyA", "KeyJ") THEN Scale ELSE 0
        right == IF held("KeyD", "KeyL") THEN Scale ELSE 0
    IN  <<right - left, up - down>>

\* The deadzone test with >= for >.
AxesExceed_inclusive(x, y) == Abs(x) >= Deadzone \/ Abs(y) >= Deadzone

\* Whether a stick's two raw axes pass `x.abs() > 0.1 || y.abs() > 0.1`.
AxesExceed(x, y) == Abs(x) > Deadzone \/ Abs(y) > Deadzone

\* One iteration of `for gamepad in gamepads.iter()`.
GamepadStep(si, pad) ==
    LET l == IF AxesExceed(pad.left_x, pad.left_y)
             THEN <<pad.left_x, pad.left_y>> ELSE si.left_stick
        r == IF AxesExceed(pad.right_x, pad.right_y)
             THEN <<pad.right_x, pad.right_y>> ELSE si.right_stick
    IN  [si EXCEPT !.left_stick = l, !.right_stick = r]

\* The whole gamepad loop: the pads in iteration order, a later one overwriting.
RECURSIVE GamepadLoop(_, _)
GamepadLoop(si, pads) ==
    IF pads = <<>> THEN si
    ELSE GamepadLoop(GamepadStep(si, Head(pads)), Tail(pads))

\* The combination with the gamepad's value taking precedence over the keyboard's.
CombineLeftStick_gamepad_first(si, kb_movement) ==
    IF LengthSq(si.left_stick) >= Deadzone * Deadzone
    THEN si
    ELSE IF LengthSq(kb_movement) > Deadzone * Deadzone
         THEN [si EXCEPT !.left_stick = Normalize(kb_movement)]
         ELSE [si EXCEPT !.left_stick = ZERO]

\* "Combine keyboard and gamepad for left stick"
CombineLeftStick(si, kb_movement) ==
    IF LengthSq(kb_movement) > Deadzone * Deadzone
    THEN [si EXCEPT !.left_stick = Normalize(kb_movement)]
    ELSE IF LengthSq(si.left_stick) < Deadzone * Deadzone
         THEN [si EXCEPT !.left_stick = ZERO]
         ELSE si

\* The value update_switch_input leaves in the SwitchInput resource.
UpdatedInput(si, kb, pads) ==
    CombineLeftStick(GamepadLoop(KeyboardButtons(ClearFrameState(si), kb), pads),
                     KbMovement(kb))

update_switch_input == switch_input' = UpdatedInput(switch_input, keyboard, gamepads)

----------------------------------------------------------------------------
(* SwitchInput::movement *)

DPadButtons == {"DPadUp", "DPadDown", "DPadLeft", "DPadRight"}

\* SwitchInput::pressed
SwitchInput_pressed(si, button) == button \in si.pressed

\* clamp_length_max that returns its argument whatever its length.
clamp_length_max_off(v) == v

\* Vec2::clamp_length_max(1.0): a vector longer than 1.0 is divided by its length.
clamp_length_max(v) ==
    IF LengthSq(v) > Scale * Scale THEN Normalize(v) ELSE v

\* The left stick nudged by 1.0 per held d-pad direction, then clamped.
movement(si) ==
    LET nudge(button) == IF button \in si.pressed THEN Scale ELSE 0
        x == si.left_stick[1] - nudge("DPadLeft") + nudge("DPadRight")
        y == si.left_stick[2] + nudge("DPadUp") - nudge("DPadDown")
    IN  clamp_length_max(<<x, y>>)

----------------------------------------------------------------------------
(* platform.rs: Platform, DisplayMode, SwitchConfig *)

\* Platform::current(), fixed when the crate is built
Platform_current == IF feature_switch THEN "SwitchDocked" ELSE "Desktop"

\* Platform::resolution with no resolution for the desktop build.
Platform_resolution_desktop_zero(platform) ==
    CASE platform = "Desktop" -> <<0, 0>>
      [] platform = "SwitchDocked" -> <<1920, 1080>>
      [] platform = "SwitchHandheld" -> <<1280, 720>>

\* Platform::resolution
Platform_resolution(platform) ==
    CASE platform = "Desktop" -> <<1920, 1080>>
      [] platform = "SwitchDocked" -> <<1920, 1080>>
      [] platform = "SwitchHandheld" -> <<1280, 720>>

\* DisplayMode::default()
DisplayMode_default == "Docked"

SwitchConfig_default ==
    [platform |-> Platform_current,
     display_mode |-> DisplayMode_default,
     resolution |-> Platform_resolution(Platform_current),
     target_fps |-> 60,
     show_perf_overlay |-> FALSE]

SwitchConfig_docked ==
    [SwitchConfig_default EXCEPT !.platform = "SwitchDocked",
                                 !.display_mode = "Docked",
                                 !.resolution = <<1920, 1080>>]

SwitchConfig_handheld ==
    [SwitchConfig_default EXCEPT !.platform = "SwitchHandheld",
                                 !.display_mode = "Handheld",
                                 !.resolution = <<1280, 720>>]

with_fps(cfg, fps) == [cfg EXCEPT !.target_fps = fps]

\* The values the application gives the SwitchConfig resource: the default and
\* the two constructors, each as it is or chained with with_fps(30).
ConfigValues ==
    LET made == {SwitchConfig_default, SwitchConfig_docked, SwitchConfig_handheld}
    IN  made \cup {with_fps(cfg, 30) : cfg \in made}

----------------------------------------------------------------------------
(* window.rs: SwitchDisplay, handle_display_mode_change, the window helpers *)

SwitchDisplay_default ==
    [mode |-> "Docked", resolution |-> <<1920, 1080>>, vsync |-> TRUE]

\* The resolution switch_window gives its Window.
switch_window == <<1920, 1080>>

\* The resolution handheld_window gives its Window.
handheld_window == <<1280, 720>>

\* SwitchDisplay::aspect_ratio, width / height, in thousandths; a zero height
\* has no quotient here (in f32 it gives an infinity or a NaN).
aspect_ratio(disp) == (disp.resolution[1] * 1000) \div disp.resolution[2]

\* The copy that takes the mode and leaves the resolution.
DisplayFromConfig_mode_only(disp, cfg) == [disp EXCEPT !.mode = cfg.display_mode]

\* display.mode = config.display_mode; display.resolution = config.resolution
DisplayFromConfig(disp, cfg) ==
    [disp EXCEPT !.mode = cfg.display_mode, !.resolution = cfg.resolution]

\* for mut window in &mut windows { window.resolution.set(..) }
WindowsFromConfig(wins, cfg) == [i \in DOMAIN wins |-> cfg.resolution]

\* handle_display_mode_change without its is_changed() gate.
handle_display_mode_change_ungated ==
    /\ display' = DisplayFromConfig(display, config)
    /\ windows' = WindowsFromConfig(windows, config)

handle_display_mode_change ==
    IF ~config_changed
    THEN UNCHANGED <<display, windows>>
    ELSE /\ display' = DisplayFromConfig(display, config)
         /\ windows' = WindowsFromConfig(windows, config)

----------------------------------------------------------------------------
(* The frame, as the host schedules it *)

\* The keys the host reports in the button specification.
ButtonKeys == {"KeyZ", "KeyW", "KeyD"}

\* A key goes down while the host gathers the frame's events.
KeyPress(key) ==
    /\ stage = "input"
    /\ keyboard' = ButtonInput_press(keyboard, key)
    /\ keyboard' # keyboard
    /\ UNCHANGED <<gamepads, switch_input, stage, moved>>
    /\ UNCHANGED display_vars

\* A key goes up while the host gathers the frame's events.
KeyRelease(key) ==
    /\ stage = "input"
    /\ keyboard' = ButtonInput_release(keyboard, key)
    /\ keyboard' # keyboard
    /\ UNCHANGED <<gamepads, switch_input, stage, moved>>
    /\ UNCHANGED display_vars

\* The Update schedule runs update_switch_input once.
Tick ==
    /\ stage = "input"
    /\ update_switch_input
    /\ stage' = "updated"
    /\ UNCHANGED <<keyboard, gamepads, moved>>
    /\ UNCHANGED display_vars

\* The next frame begins: the host clears the keyboard's just-sets.
BeginFrame ==
    /\ stage = "updated"
    /\ keyboard' = ButtonInput_clear(keyboard)
    /\ stage' = "input"
    /\ UNCHANGED <<gamepads, switch_input, moved>>
    /\ UNCHANGED display_vars

\* A gamepad's four axis readings, as Gamepad::get(..).unwrap_or(0.0) gives them.
Pad(lx, ly, rx, ry) == [left_x |-> lx, left_y |-> ly, right_x |-> rx, right_y |-> ry]

\* The readings the host reports: at rest; every axis at 0.05; axes at exactly
\* 0.1; the left stick at 0.15 with the right below the deadzone; the right
\* stick at full deflection with the left below the deadzone.
GamepadReadings ==
    {Pad(0, 0, 0, 0),
     Pad(1, 1, 1, 1),
     Pad(Deadzone, -Deadzone, 0, Deadzone),
     Pad(Deadzone + 1, 0, 1, 0),
     Pad(0, 1, 0, -Scale)}

\* The keys the host reports in the stick specification.
StickKeys == {"KeyW", "KeyD"}

\* A gamepad is attached: one more entity for the query to visit.
GamepadConnect(pad) ==
    /\ stage = "input"
    /\ Len(gamepads) < MaxGamepads
    /\ gamepads' = Append(gamepads, pad)
    /\ UNCHANGED <<keyboard, switch_input, stage, moved>>
    /\ UNCHANGED display_vars

\* A gamepad is detached.
GamepadDisconnect(i) ==
    /\ stage = "input"
    /\ i \in 1..Len(gamepads)
    /\ gamepads' = SubSeq(gamepads, 1, i - 1) \o SubSeq(gamepads, i + 1, Len(gamepads))
    /\ UNCHANGED <<keyboard, switch_input, stage, moved>>
    /\ UNCHANGED display_vars

\* A gamepad's axes move.
GamepadAxisChanged(i, pad) ==
    /\ stage = "input"
    /\ i \in 1..Len(gamepads)
    /\ gamepads[i] # pad
    /\ gamepads' = [gamepads EXCEPT ![i] = pad]
    /\ UNCHANGED <<keyboard, switch_input, stage, moved>>
    /\ UNCHANGED display_vars

\* SwitchInput::default()
SwitchInput_default ==
    [left_stick |-> ZERO, right_stick |-> ZERO,
     pressed |-> {}, just_pressed |-> {}, just_released |-> {}]

InitInput ==
    /\ keyboard = [pressed |-> {}, just_pressed |-> {}, just_released |-> {}]
    /\ gamepads = <<>>
    /\ switch_input = SwitchInput_default
    /\ stage = "input"
    /\ moved = <<>>

\* SwitchPlugin::build inserts the default SwitchConfig, SwitchWindowPlugin the
\* default SwitchDisplay; a resource just inserted counts as changed.
InitDisplay ==
    /\ feature_switch \in BOOLEAN
    /\ config = SwitchConfig_default
    /\ config_changed = TRUE
    /\ display = SwitchDisplay_default
    /\ windows = <<>>
    /\ config_constructed = TRUE

Init == InitInput /\ InitDisplay

\* Keyboard only: the button sets.
Next ==
    \/ \E key \in ButtonKeys : KeyPress(key)
    \/ \E key \in ButtonKeys : KeyRelease(key)
    \/ Tick
    \/ BeginFrame

Spec == Init /\ [][Next]_vars

\* Directional keys and gamepads: the sticks.
NextStick ==
    \/ \E key \in StickKeys : KeyPress(key)
    \/ \E key \in StickKeys : KeyRelease(key)
    \/ \E pad \in GamepadReadings : GamepadConnect(pad)
    \/ \E i \in 1..MaxGamepads : GamepadDisconnect(i)
    \/ \E i \in 1..MaxGamepads, pad \in GamepadReadings : GamepadAxisChanged(i, pad)
    \/ Tick
    \/ BeginFrame

SpecStick == Init /\ [][NextStick]_vars

\* The application replaces the SwitchConfig resource, which marks it changed.
ReplaceConfig(cfg) ==
    /\ stage = "input"
    /\ config' = cfg
    /\ config_changed' = TRUE
    /\ UNCHANGED <<display, windows, feature_switch, config_constructed>>
    /\ UNCHANGED input_vars

\* The resolutions the application writes into the public field by hand.
WrittenResolutions == {<<0, 0>>, <<800, 600>>}

\* The application assigns SwitchConfig's public resolution field, which marks
\* the resource changed; the config is no longer a constructor's value.
WriteResolution(resolution) ==
    /\ stage = "input"
    /\ config' = [config EXCEPT !.resolution = resolution]
    /\ config_changed' = TRUE
    /\ config_constructed' = FALSE
    /\ UNCHANGED <<display, windows, feature_switch>>
    /\ UNCHANGED input_vars

\* The application spawns a window made by one of the two helpers.
SpawnWindow(resolution) ==
    /\ stage = "input"
    /\ Len(windows) < MaxWindows
    /\ windows' = Append(windows, resolution)
    /\ UNCHANGED <<config, config_changed, display, feature_switch, config_constructed>>
    /\ UNCHANGED input_vars

\* A window closes.
CloseWindow(i) ==
    /\ stage = "input"
    /\ i \in 1..Len(windows)
    /\ windows' = SubSeq(windows, 1, i - 1) \o SubSeq(windows, i + 1, Len(windows))
    /\ UNCHANGED <<config, config_changed, display, feature_switch, config_constructed>>
    /\ UNCHANGED input_vars

\* The Update schedule runs handle_display_mode_change once; the system has
\* then observed the SwitchConfig resource.
DisplayTick ==
    /\ stage = "input"
    /\ handle_display_mode_change
    /\ config_changed' = FALSE
    /\ stage' = "updated"
    /\ UNCHANGED <<config, feature_switch, config_constructed>>
    /\ UNCHANGED <<keyboard, gamepads, switch_input, moved>>

\* The configuration, the windows and the display manager.
NextDisplay ==
    \/ \E cfg \in ConfigValues : ReplaceConfig(cfg)
    \/ \E resolution \in WrittenResolutions : WriteResolution(resolution)
    \/ \E resolution \in {switch_window, handheld_window} : SpawnWindow(resolution)
    \/ \E i \in 1..MaxWindows : CloseWindow(i)
    \/ DisplayTick
    \/ BeginFrame

SpecDisplay == Init /\ [][NextDisplay]_vars

\* The stick values update_switch_input can leave: zero, or a vector with an
\* axis beyond the deadzone (a gamepad's raw reading, or a normalized keyboard
\* vector), each axis within -1.0..1.0.
ReachableSticks ==
    {v \in (-Scale..Scale) \X (-Scale..Scale) : v = ZERO \/ AxesExceed(v[1], v[2])}

\* Every primary stick value with every set of held d-pad buttons.
MoveInputs ==
    /\ keyboard = [pressed |-> {}, just_pressed |-> {}, just_released |-> {}]
    /\ gamepads = <<>>
    /\ switch_input \in
           {[SwitchInput_default EXCEPT !.left_stick = v, !.pressed = held] :
                v \in ReachableSticks, held \in SUBSET DPadButtons}
    /\ stage = "updated"
    /\ moved = <<>>

\* The application calls movement().
CallMovement ==
    /\ moved = <<>>
    /\ moved' = movement(switch_input)
    /\ UNCHANGED <<keyboard, gamepads, switch_input, stage>>
    /\ UNCHANGED display_vars

NextMove == CallMovement

InitMove == MoveInputs /\ InitDisplay

SpecMove == InitMove /\ [][NextMove]_vars

----------------------------------------------------------------------------
(* The input aggregator's properties *)

\* The buttons from_keycode gives for a set of keys.
ButtonsOf(keys) == {from_keycode(key) : key \in keys \cap TableKeys}

\* A step in which update_switch_input runs.
TickStep == stage = "input" /\ stage' = "updated"

\* W/I, S/K, A/J, D/L
DirectionalKeys == {"KeyW", "KeyI", "KeyS", "KeyK", "KeyA", "KeyJ", "KeyD", "KeyL"}

\* C1: after every tick, pressed-this-tick holds only buttons whose key was
\* newly pressed during that tick and released-this-tick only buttons whose key
\* was newly released during it; so a button of tick n is gone after tick n+1
\* unless its event recurs, and both sets are empty after a tick with no events.
C1_TransientSetsLastOneTick ==
    stage = "updated" =>
        /\ switch_input.just_pressed \subseteq ButtonsOf(keyboard.just_pressed)
        /\ switch_input.just_released \subseteq ButtonsOf(keyboard.just_released)

\* C1's case: R is still held after a tick with no key events, and has left
\* pressed-this-tick, where the tick that pressed it had put it.
C1_Witness ==
    /\ stage = "updated"
    /\ keyboard.just_pressed = {} /\ keyboard.just_released = {}
    /\ "R" \in switch_input.pressed
    /\ switch_input.just_pressed = {} /\ switch_input.just_released = {}

\* C2: after a tick, the button of every table key that is held and newly
\* pressed since the previous tick is in the held set and in pressed-this-tick.
C2_NewlyHeldKeyIsHeld ==
    stage = "updated" =>
        \A key \in keyboard.just_pressed \cap keyboard.pressed \cap TableKeys :
            /\ from_keycode(key) \in switch_input.pressed
            /\ from_keycode(key) \in switch_input.just_pressed

C4_UnmappedKeysChangeNothing ==
    [][(/\ TickStep
        /\ (keyboard.just_pressed \cup keyboard.just_released) \cap TableKeys = {})
       => /\ switch_input'.pressed = switch_input.pressed
          /\ switch_input'.just_pressed = {}
          /\ switch_input'.just_released = {}]_vars

\* C4's case: the tick saw D, which is outside the table, newly pressed and
\* nothing else, while B was held.
C4_Witness ==
    /\ stage = "updated"
    /\ keyboard.just_pressed = {"KeyD"} /\ keyboard.just_released = {}
    /\ switch_input.pressed = {"B"}
    /\ switch_input.just_pressed = {} /\ switch_input.just_released = {}

\* Whether every attached gamepad reports both left axes below the deadzone.
LeftAxesBelow ==
    \A i \in 1..Len(gamepads) :
        Abs(gamepads[i].left_x) < Deadzone /\ Abs(gamepads[i].left_y) < Deadzone

\* C8: after a tick in which no directional key is held and every attached
\* gamepad reports both left axes below the deadzone, the primary stick is zero.
C8_BelowDeadzoneIsNeutral ==
    (/\ stage = "updated"
     /\ keyboard.pressed \cap DirectionalKeys = {}
     /\ LeftAxesBelow)
    => switch_input.left_stick = ZERO

\* The primary stick as the gamepad loop leaves it, before the combination.
LeftAfterGamepads == GamepadLoop(switch_input, gamepads).left_stick

\* C9: in a tick, a keyboard vector with a non-zero axis becomes the primary
\* stick, normalized, whatever the gamepads wrote; otherwise the primary stick
\* is zeroed exactly when its length is below the deadzone, and is left as the
\* gamepad loop left it when its length is the deadzone or more.
C9_PrimaryStickResolution ==
    [][TickStep =>
        LET kb == KbMovement(keyboard)
            cur == LeftAfterGamepads
        IN  IF kb[1] # 0 \/ kb[2] # 0
            THEN switch_input'.left_stick = Normalize(kb)
            ELSE IF LengthSq(cur) < Deadzone * Deadzone
                 THEN switch_input'.left_stick = ZERO
                 ELSE switch_input'.left_stick = cur]_vars

\* C9's case: W and D are held while a gamepad reports its left stick beyond
\* the deadzone, and the primary stick is the normalized diagonal.
C9_Witness ==
    /\ stage = "updated"
    /\ {"KeyW", "KeyD"} \subseteq keyboard.pressed
    /\ \E i \in 1..Len(gamepads) : Abs(gamepads[i].left_x) > Deadzone
    /\ switch_input.left_stick = <<14, 14>>

\* Whether no attached gamepad reports a left (right) axis above the deadzone.
NoLeftAxisAbove ==
    \A i \in 1..Len(gamepads) :
        Abs(gamepads[i].left_x) <= Deadzone /\ Abs(gamepads[i].left_y) <= Deadzone

NoRightAxisAbove ==
    \A i \in 1..Len(gamepads) :
        Abs(gamepads[i].right_x) <= Deadzone /\ Abs(gamepads[i].right_y) <= Deadzone

\* C10: in a tick where every gamepad's two axes for a stick are at or below
\* the deadzone, the gamepad loop leaves that stick as it was, whatever the
\* other stick's axes read: the secondary stick keeps its value, and so does
\* the primary stick when the combination step does not touch it (no
\* directional key held, length at least the deadzone).
C10_GamepadWritesOnlyAboveDeadzone ==
    [][TickStep =>
        /\ NoRightAxisAbove => switch_input'.right_stick = switch_input.right_stick
        /\ (/\ NoLeftAxisAbove
            /\ KbMovement(keyboard) = ZERO
            /\ LengthSq(switch_input.left_stick) >= Deadzone * Deadzone)
           => switch_input'.left_stick = switch_input.left_stick]_vars

\* C10's case: the only gamepad reports 0.05 on every axis in this tick, and the
\* secondary stick still holds the full deflection an earlier tick wrote.
C10_Witness ==
    /\ stage = "updated"
    /\ gamepads = <<Pad(1, 1, 1, 1)>>
    /\ switch_input.right_stick = <<0, -Scale>>

----------------------------------------------------------------------------
(* movement()'s property *)

\* C7 as stated: movement() returns a vector of magnitude at most 1.0.
C7_MagnitudeAtMostOne ==
    moved # <<>> => LengthSq(moved) <= Scale * Scale

\* C7, amended: movement() returns a vector of magnitude at most 1.0 plus the
\* rounding error of the division by the length, which here is under one unit
\* of the representation.  (In f32: the stick at (0.38061762, -0.078902416) with
\* DPadUp and DPadRight held gives (0.8318596, 0.5549863), of length 1.0000001.)
C7_MagnitudeAtMostOneRounded ==
    moved # <<>> => LengthSq(moved) < (Scale + 1) * (Scale + 1)

\* C7's case: the stick at full deflection with all four d-pad buttons held, and
\* movement() has clamped it.
C7_Witness ==
    /\ switch_input.left_stick = <<Scale, Scale>>
    /\ switch_input.pressed = DPadButtons
    /\ moved # <<>>
    /\ moved # switch_input.left_stick

----------------------------------------------------------------------------
(* The display manager's properties *)

\* A step in which handle_display_mode_change runs and finds the config changed.
ChangeObserved == TickStep /\ config_changed

\* C5: no step but a tick that finds the config changed alters the
\* SwitchDisplay resource, so replacing the config leaves it as it was; and the
\* tick that finds the handheld config makes it 1280x720, Handheld.
C5_DisplayFollowsConfigAtNextTick ==
    [][/\ display' # display => ChangeObserved
       /\ (ChangeObserved /\ config \in {SwitchConfig_handheld, with_fps(SwitchConfig_handheld, 30)})
          => (display'.resolution = <<1280, 720>> /\ display'.mode = "Handheld")]_vars

\* C5's case: the config is the handheld one, the display manager has run since
\* it was assigned, and the display is 1280x720, Handheld.
C5_Witness ==
    /\ stage = "updated"
    /\ config = SwitchConfig_handheld
    /\ display.resolution = <<1280, 720>>
    /\ display.mode = "Handheld"

\* C6: a tick of the display manager that finds the config not changed since
\* its last run leaves the SwitchDisplay resource and every window's resolution
\* as they were.
C6_UnchangedConfigWritesNothing ==
    [][(TickStep /\ ~config_changed)
       => (display' = display /\ windows' = windows)]_vars

\* C6's case: the display manager has run, and a window spawned since the
\* config last changed still has a resolution other than the config's.
C6_Witness ==
    /\ stage = "updated"
    /\ \E i \in 1..Len(windows) : windows[i] # config.resolution

----------------------------------------------------------------------------
(* The closed resolution enumeration, and the held set against the keyboard *)

\* C11: while the SwitchConfig resource has only ever been the default or a
\* value of docked() / handheld(), with or without with_fps, the SwitchDisplay
\* resolution is 1920x1080 or 1280x720, neither dimension is zero, and so
\* aspect_ratio() divides by a non-zero height.
C11_ResolutionIsNonZero ==
    config_constructed =>
    /\ display.resolution \in {<<1920, 1080>>, <<1280, 720>>}
    /\ display.resolution[1] > 0
    /\ display.resolution[2] > 0

\* C11's case: the config has been replaced by a constructor's value, the
\* display manager has copied it, and aspect_ratio() is 16:9.
C11_Witness ==
    /\ stage = "updated"
    /\ config_constructed
    /\ config = with_fps(SwitchConfig_handheld, 30)
    /\ display.resolution = <<1280, 720>>
    /\ aspect_ratio(display) = 1777

\* C12: after every tick, a table key's button is held exactly when the host
\* reports the key held, whatever the key events of the tick were.
C12_HeldSetMatchesKeyboard ==
    stage = "updated" =>
        \A key \in TableKeys :
            SwitchInput_pressed(switch_input, from_keycode(key)) <=> key \in keyboard.pressed

====
